---- MODULE Spec2Model ----
(***************************************************************************)
(* A model of dl-reddit-top.py: the collect loop over the configured       *)
(* subreddits, the persist loop over POSTS and the closing email step,     *)
(* with the helper functions they call.                                    *)
(*                                                                         *)
(* Python values are modelled as follows.                                  *)
(*   - a str that the code takes apart (a title, a url) is a sequence of   *)
(*     tokens; a str that is only compared or joined is a TLA+ string;     *)
(*   - a dict is a sequence of [key, val] items in insertion order;        *)
(*   - bytes are a sequence of numbers;                                    *)
(*   - a call that may raise returns a record with a field "raised"; an    *)
(*     exception nobody catches ends the run (pc = "crashed").             *)
(***************************************************************************)
EXTENDS Integers, Sequences, FiniteSets, TLC

VARIABLES
    pc,           \* where the module-level script is: collect, persist, email, done, crashed
    fi,           \* index into subreddits of the feed the collect loop fetches next
    pi,           \* index into POSTS of the post the persist loop handles next
    POSTS,        \* the global dict POSTS
    disk,         \* the files of the output directory: path -> content
    email_user,   \* the setting send_email
    emails,       \* number of calls of send_email
    uuids,        \* number of uuid4 tokens drawn so far
    crash,        \* the call whose exception ended the run ("" when none)
    fetched,      \* history: what get_top_posts returned (or raised) for each feed
    trace,        \* history: what the persist loop did with each post
    fin,          \* the response handed to get_top_posts when it is studied alone
    fout          \* its result

vars == <<pc, fi, pi, POSTS, disk, email_user, emails, uuids, crash,
          fetched, trace, fin, fout>>

-----------------------------------------------------------------------------
(* Bounds of the model *)

\* longest listing a feed returns in the whole-run specification
MaxListing == 2

\* longest listing handed to get_top_posts when it is studied alone
MaxChildren == 3

-----------------------------------------------------------------------------
(* Settings (read from the configuration before the loops start) *)

subreddits == <<"pics", "aww">>
timeframe == "month"
output_directory == "images"

\* datetime.now() formatted with %d, %m, %y
Today == [day |-> "03", month |-> "11", year |-> "26"]

-----------------------------------------------------------------------------
(* Inputs *)

\* urls, as token sequences: host, "/", stem, ".", suffix
UrlJpg == <<"i", "/", "x", ".", "jpg">>
UrlPng == <<"i", "/", "y", ".", "png">>
UrlHtml == <<"i", "/", "z", ".", "html">>
UrlBare == <<"i", "/", "w">>

\* titles, as character sequences
TitleA == <<"a">>
TitleMixed == <<"a", " ", "!">>
TitleEmoji == <<"!">>

Child(id, url, title) == [id |-> id, url |-> url, title |-> title]

\* the children a feed of the whole-run specification may list: two posts
\* that derive the same name, a post with an emoji-only title, a second
\* version of post p1, and a post that is no image
Children ==
    { Child("p1", UrlJpg, TitleMixed), Child("p2", UrlJpg, TitleMixed),
      Child("p2", UrlPng, TitleEmoji), Child("p1", UrlPng, TitleA),
      Child("p3", UrlHtml, TitleA) }

\* the children of the listings handed to get_top_posts alone
FetchChildren ==
    [id : {"p1", "p2", "p3", "p4"}, url : {UrlJpg, UrlPng, UrlHtml, UrlBare},
     title : {TitleA}]

\* image contents
Images == { <<1>>, <<2>> }
OldImage == <<9>>

WordChars == {"a", "b", "_"}
SpaceChars == {" "}

-----------------------------------------------------------------------------
(* Python helpers *)

Min(a, b) == IF a <= b THEN a ELSE b

\* "".join(tokens)
RECURSIVE Join(_)
Join(s) == IF s = <<>> THEN "" ELSE Head(s) \o Join(Tail(s))

\* s.rfind(t): the last index of t in s, 0 when absent (Python: -1)
rfind(s, t) ==
    IF \E i \in 1..Len(s) : s[i] = t
    THEN CHOOSE i \in 1..Len(s) : s[i] = t /\ \A j \in (i+1)..Len(s) : s[j] # t
    ELSE 0

\* os.path.splitext: the extension starts at the last dot of the last path
\* component, unless that component has only leading dots before it
splitext(p) ==
    LET sepIndex == rfind(p, "/")
        dotIndex == rfind(p, ".")
    IN  IF dotIndex > sepIndex
           /\ \E k \in (sepIndex+1)..(dotIndex-1) : p[k] # "."
        THEN <<SubSeq(p, 1, dotIndex-1), SubSeq(p, dotIndex, Len(p))>>
        ELSE <<p, <<>> >>

\* mimetypes.types_map, the part the urls of the model reach
types_map(ext) ==
    CASE ext = ".jpg"  -> <<"image", "jpeg">>
      [] ext = ".png"  -> <<"image", "png">>
      [] ext = ".html" -> <<"text", "html">>
      [] OTHER         -> <<>>

\* mimetypes.guess_type(url)[0]; <<>> is None
guess_type(url) == types_map(Join(splitext(url)[2]))

\* hashlib.sha1(image).hexdigest()
sha1(image) ==
    CASE image = <<>>  -> "da39a3ee5e6b4b0d3255bfef95601890afd80709"
      [] image = <<1>> -> "bf8b4530d8d246dd74ac53a13471bba17941dff7"
      [] image = <<2>> -> "c4ea21bb365bbeeaf5f2c654883e56d11e43c44e"
      [] image = <<9>> -> "ac9231da4082430afe8f4d40127814c613648d8e"

\* the empty dict, and the dict operations the script uses
EmptyDict == <<>>

DictIndex(d, k) ==
    IF \E i \in 1..Len(d) : d[i].key = k
    THEN CHOOSE i \in 1..Len(d) : d[i].key = k
    ELSE 0

DictKeys(d) == { d[i].key : i \in 1..Len(d) }

DictGet(d, k) == d[DictIndex(d, k)].val

\* d[k] = v: a present key keeps its place and takes the new value
DictSet(d, k, v) ==
    IF DictIndex(d, k) = 0
    THEN Append(d, [key |-> k, val |-> v])
    ELSE [d EXCEPT ![DictIndex(d, k)] = [key |-> k, val |-> v]]

-----------------------------------------------------------------------------
(* The functions of the script *)

\* is_url_image(url): a mimetype was guessed and it starts with "image"
is_url_image(url) ==
    LET mimetype == guess_type(url)
    IN  mimetype # <<>> /\ mimetype[1] = "image"

\* calculate_hash(image): hashlib.sha1 raises TypeError for False, which is
\* what download_image returns when it fails without raising
calculate_hash(image) ==
    IF image.is_false
    THEN [raised |-> TRUE, sha1 |-> ""]
    ELSE [raised |-> FALSE, sha1 |-> sha1(image.data)]

\* is_duplicate_hash(image_hash): some entry of POSTS carries this hash
\* (variant: no hash is ever reported as a duplicate)
is_duplicate_hash_never(posts, image_hash) == FALSE
is_duplicate_hash(posts, image_hash) ==
    \E i \in 1..Len(posts) : posts[i].val.hash = image_hash

\* os.path.isfile(filename)
\* (variant: the test looks at a path that never holds a file)
isfile_absent(dsk, filename) == FALSE
isfile(dsk, filename) == filename \in DOMAIN dsk

\* is_duplicate_file(filename)
\* (variant: the existence check never makes the loop continue)
is_duplicate_file_never(dsk, filename) == FALSE
is_duplicate_file(dsk, filename) == isfile(dsk, filename)

\* name[:50]
MaxNameLen == 50

\* re.sub(r"[^\w\s]", "", name)
strip_special(name) ==
    SelectSeq(name, LAMBDA c : c \in WordChars \cup SpaceChars)

\* re.sub(r"\s+", "-", name)
RECURSIVE skip_spaces(_)
skip_spaces(name) ==
    IF name # <<>> /\ Head(name) \in SpaceChars
    THEN skip_spaces(Tail(name))
    ELSE name

RECURSIVE collapse_spaces(_)
collapse_spaces(name) ==
    IF name = <<>> THEN <<>>
    ELSE IF Head(name) \in SpaceChars
         THEN <<"-">> \o collapse_spaces(skip_spaces(name))
         ELSE <<Head(name)>> \o collapse_spaces(Tail(name))

\* the sanitized name of make_filename, before the uuid fallback
sanitize_name(name) ==
    LET n == collapse_spaces(strip_special(name))
    IN  IF Len(n) > MaxNameLen THEN SubSeq(n, 1, MaxNameLen) ELSE n

\* str(uuid.uuid4().hex): the rnd-th token drawn; every draw is a new token
uuid4_hex(rnd) == "uuid" \o ToString(rnd)

\* make_filename(url, name, subreddit, out_dir), with the clock and the
\* random source as arguments
make_filename(url, name, subreddit, out_dir, now, rnd) ==
    LET date == now.day \o now.month \o now.year
        clean == sanitize_name(name)
        nm == IF clean = <<>> THEN uuid4_hex(rnd) ELSE Join(clean)
        ext == Join(splitext(url)[2])
        filename == date \o "_" \o subreddit \o "_" \o nm \o ext
    IN  out_dir \o "/" \o filename

\* whether make_filename draws a uuid for this title
draws_uuid(name) == sanitize_name(name) = <<>>

\* download_image(url): the handlers build their log message with
\* str + e.code (an int) and str + e.reason (a str or an exception), so
\* the HTTPError handler raises TypeError, and the URLError handler raises
\* it unless the reason is a str; then it returns False
download_image(resp) ==
    IF resp.kind = "HTTPError"
    THEN [raised |-> TRUE, is_false |-> FALSE, data |-> <<>>]
    ELSE IF resp.kind = "URLError"
    THEN IF resp.reason_is_str
         THEN [raised |-> FALSE, is_false |-> TRUE, data |-> <<>>]
         ELSE [raised |-> TRUE, is_false |-> FALSE, data |-> <<>>]
    ELSE [raised |-> FALSE, is_false |-> FALSE, data |-> resp.data]

\* save_image(filename, data): open(filename, "wb") and write; an IOError is
\* logged and False returned. io.kind says how the file system answers:
\* "ok"; "open_fails" (no file is made); "write_fails" (the file holds the
\* first io.n bytes)
save_image(dsk, filename, data, io) ==
    IF io.kind = "ok"
    THEN [ret |-> TRUE, disk |-> (filename :> data) @@ dsk]
    ELSE IF io.kind = "open_fails"
    THEN [ret |-> FALSE, disk |-> dsk]
    ELSE [ret |-> FALSE,
          disk |-> (filename :> SubSeq(data, 1, Min(io.n, Len(data)))) @@ dsk]

\* the entry get_top_posts makes for an image post (hash starts empty)
\* (variant: the entry starts with the hash of no content instead of "")
post_entry_hashed(url, title, subreddit) ==
    [url |-> url, title |-> title, subreddit |-> subreddit, hash |-> sha1(<<>>)]
post_entry(url, title, subreddit) ==
    [url |-> url, title |-> title, subreddit |-> subreddit, hash |-> ""]

\* the loop of get_top_posts over feed["data"]["children"], from child i on
\* (variant: a non-image is passed over instead of ending the loop)
RECURSIVE scan_children_all(_, _, _, _)
scan_children_all(children, i, subreddit, subreddit_posts) ==
    IF i > Len(children) THEN subreddit_posts
    ELSE LET asset == children[i]
         IN  IF is_url_image(asset.url)
             THEN scan_children_all(children, i + 1, subreddit,
                      DictSet(subreddit_posts, asset.id,
                              post_entry(asset.url, asset.title, subreddit)))
             ELSE scan_children_all(children, i + 1, subreddit, subreddit_posts)

RECURSIVE scan_children(_, _, _, _)
scan_children(children, i, subreddit, subreddit_posts) ==
    IF i > Len(children) THEN subreddit_posts
    ELSE LET asset == children[i]
         IN  IF is_url_image(asset.url)
             THEN scan_children(children, i + 1, subreddit,
                      DictSet(subreddit_posts, asset.id,
                              post_entry(asset.url, asset.title, subreddit)))
             ELSE subreddit_posts   \* break

\* get_top_posts(subreddit, timeframe), given the answer of the feed source.
\* (A body that is no JSON, or a "data" without "children", raises as well;
\* the responses of the model do not include them.)
\* The HTTPError handler raises TypeError (str + e.code); the URLError handler
\* raises it unless e.reason is a str.
get_top_posts(subreddit, tf, resp) ==
    IF resp.kind = "HTTPError"
    THEN [raised |-> TRUE, is_false |-> FALSE, posts |-> EmptyDict]
    ELSE IF resp.kind = "URLError"
    THEN IF resp.reason_is_str
         THEN [raised |-> FALSE, is_false |-> TRUE, posts |-> EmptyDict]
         ELSE [raised |-> TRUE, is_false |-> FALSE, posts |-> EmptyDict]
    ELSE IF ~resp.has_data
    THEN [raised |-> FALSE, is_false |-> TRUE, posts |-> EmptyDict]
    ELSE [raised |-> FALSE, is_false |-> FALSE,
          posts |-> scan_children(resp.children, 1, subreddit, EmptyDict)]

\* POSTS.update(top_posts)
\* (variant: a key that is present keeps its value, as with setdefault)
RECURSIVE DictUpdateKeepFirst(_, _)
DictUpdateKeepFirst(d, other) ==
    IF other = <<>> THEN d
    ELSE DictUpdateKeepFirst(
             IF DictIndex(d, Head(other).key) = 0
             THEN Append(d, Head(other)) ELSE d,
             Tail(other))

RECURSIVE DictUpdate(_, _)
DictUpdate(d, other) ==
    IF other = <<>> THEN d
    ELSE DictUpdate(DictSet(d, Head(other).key, Head(other).val), Tail(other))

-----------------------------------------------------------------------------
(* The body of the persist loop *)

\* what the persist loop did with one post: existed says whether a file was
\* at the derived path when the post was reached, skipped whether
\* is_duplicate_file made the loop continue
Event(key, filename) ==
    [key |-> key, filename |-> filename, existed |-> FALSE, skipped |-> FALSE,
     downloads |-> 0,
     dl_failed |-> FALSE, image |-> <<>>, hashed |-> 0, dup_hash_logs |-> 0,
     hash_sets |-> 0, saves |-> 0, save_ret |-> FALSE, wrote |-> FALSE]

\* One pass of the loop body for POSTS item i: resp is the answer to the
\* download, io the answer of the file system to the write, rnd the number
\* of uuid tokens drawn before. raised names the call that raised ("" if none).
process_post(posts, dsk, i, rnd, resp, io) ==
    LET key == posts[i].key
        metadata == posts[i].val
        filename == make_filename(metadata.url, metadata.title,
                        metadata.subreddit, output_directory, Today, rnd)
        ev == [Event(key, filename) EXCEPT !.existed = filename \in DOMAIN dsk]
        image == download_image(resp)
        hashing == calculate_hash(image)
        image_hash == hashing.sha1
        got == [ev EXCEPT !.downloads = 1, !.dl_failed = resp.kind # "ok",
                          !.image = image.data]
        stored == [posts EXCEPT ![i].val.hash = image_hash]
        saved == save_image(dsk, filename, image.data, io)
    IN  IF is_duplicate_file(dsk, filename)
        THEN [posts |-> posts, disk |-> dsk, raised |-> "",
              ev |-> [ev EXCEPT !.skipped = TRUE]]                 \* continue
        ELSE IF image.raised
        THEN [posts |-> posts, disk |-> dsk, raised |-> "download_image",
              ev |-> got]
        ELSE IF hashing.raised
        THEN [posts |-> posts, disk |-> dsk, raised |-> "calculate_hash",
              ev |-> [got EXCEPT !.hashed = 1]]
        ELSE IF is_duplicate_hash(posts, image_hash)
        THEN [posts |-> posts, disk |-> dsk, raised |-> "",
              ev |-> [got EXCEPT !.hashed = 1, !.dup_hash_logs = 1]]  \* continue
        ELSE [posts |-> stored, disk |-> saved.disk, raised |-> "",
              ev |-> [got EXCEPT !.hashed = 1, !.hash_sets = 1, !.saves = 1,
                                 !.save_ret = saved.ret,
                                 !.wrote = (saved.disk # dsk)]]

-----------------------------------------------------------------------------
(* What the environment may answer *)

Response(kind, reason_is_str, has_data, children, data) ==
    [kind |-> kind, reason_is_str |-> reason_is_str, has_data |-> has_data,
     children |-> children, data |-> data]

FailedResponses ==
    { Response("HTTPError", FALSE, FALSE, <<>>, <<>>),
      Response("URLError", TRUE, FALSE, <<>>, <<>>),
      Response("URLError", FALSE, FALSE, <<>>, <<>>) }

\* listings of at most n children with pairwise different ids
Listings(children, n) ==
    { l \in UNION { [1..k -> children] : k \in 0..n } :
        \A a, b \in 1..Len(l) : a # b => l[a].id # l[b].id }

FeedResponsesOver(children, n) ==
    FailedResponses
      \cup { Response("ok", FALSE, FALSE, <<>>, <<>>) }   \* no "data" in the feed
      \cup { Response("ok", FALSE, TRUE, l, <<>>) : l \in Listings(children, n) }

FeedResponses == FeedResponsesOver(Children, MaxListing)

DownloadResponses ==
    FailedResponses \cup { Response("ok", FALSE, FALSE, <<>>, b) : b \in Images }

SaveOutcomes ==
    { [kind |-> "ok", n |-> 0], [kind |-> "open_fails", n |-> 0],
      [kind |-> "write_fails", n |-> 0] }

NoFiles == [p \in {} |-> <<>>]

\* a file an earlier run of the same day left in the output directory
OldFile ==
    make_filename(UrlJpg, TitleMixed, subreddits[1], output_directory, Today, 0)

InitDisks == { NoFiles, (OldFile :> OldImage) @@ NoFiles }

NoResponse == Response("none", FALSE, FALSE, <<>>, <<>>)
NoResult == [raised |-> FALSE, is_false |-> FALSE, posts |-> EmptyDict]

-----------------------------------------------------------------------------
(* The run *)

Init ==
    /\ pc = "collect"
    /\ fi = 1
    /\ pi = 1
    /\ POSTS = EmptyDict
    /\ disk \in InitDisks
    /\ email_user \in BOOLEAN
    /\ emails = 0
    /\ uuids = 0
    /\ crash = ""
    /\ fetched = <<>>
    /\ trace = <<>>
    /\ fin = NoResponse
    /\ fout = NoResult

\* one pass of "for subreddit in subreddits"
FetchFeed ==
    /\ pc = "collect"
    /\ \E resp \in FeedResponses :
         LET top_posts == get_top_posts(subreddits[fi], timeframe, resp)
             merged == IF top_posts.is_false THEN POSTS
                       ELSE DictUpdate(POSTS, top_posts.posts)
         IN  /\ fetched' = Append(fetched, top_posts)
             /\ IF top_posts.raised
                THEN /\ pc' = "crashed"
                     /\ crash' = "get_top_posts"
                     /\ UNCHANGED <<fi, POSTS>>
                ELSE /\ POSTS' = merged
                     /\ fi' = fi + 1
                     /\ pc' = IF fi < Len(subreddits) THEN "collect"
                              ELSE IF Len(merged) > 0 THEN "persist"
                              ELSE "email"
                     /\ crash' = crash
    /\ UNCHANGED <<pi, disk, email_user, emails, uuids, trace, fin, fout>>

\* one pass of "for _, metadata in POSTS.items()"
PersistPost ==
    /\ pc = "persist"
    /\ \E resp \in DownloadResponses, io \in SaveOutcomes :
         LET r == process_post(POSTS, disk, pi, uuids, resp, io)
         IN  /\ POSTS' = r.posts
             /\ disk' = r.disk
             /\ trace' = Append(trace, r.ev)
             /\ uuids' = IF draws_uuid(POSTS[pi].val.title)
                         THEN uuids + 1 ELSE uuids
             /\ IF r.raised # ""
                THEN /\ pc' = "crashed"
                     /\ crash' = r.raised
                     /\ pi' = pi
                ELSE /\ pi' = pi + 1
                     /\ pc' = IF pi < Len(POSTS) THEN "persist" ELSE "email"
                     /\ crash' = crash
    /\ UNCHANGED <<fi, email_user, emails, fetched, fin, fout>>

\* "if email_user: send_email(...)"; smtplib may raise
EmailStep ==
    /\ pc = "email"
    /\ IF email_user
       THEN /\ emails' = emails + 1
            /\ \E smtp_ok \in BOOLEAN :
                 IF smtp_ok
                 THEN pc' = "done" /\ crash' = crash
                 ELSE pc' = "crashed" /\ crash' = "send_email"
       ELSE /\ pc' = "done"
            /\ UNCHANGED <<emails, crash>>
    /\ UNCHANGED <<fi, pi, POSTS, disk, email_user, uuids, fetched, trace,
                   fin, fout>>

Next == FetchFeed \/ PersistPost \/ EmailStep

Spec == Init /\ [][Next]_vars

-----------------------------------------------------------------------------
(* get_top_posts alone, over every listing of up to MaxChildren children *)

FetchInputs == FeedResponsesOver(FetchChildren, MaxChildren)

InitFetch ==
    /\ pc = "call"
    /\ fin \in FetchInputs
    /\ fout = NoResult
    /\ fi = 1
    /\ pi = 1
    /\ POSTS = EmptyDict
    /\ disk = NoFiles
    /\ email_user = FALSE
    /\ emails = 0
    /\ uuids = 0
    /\ crash = ""
    /\ fetched = <<>>
    /\ trace = <<>>

CallGetTopPosts ==
    /\ pc = "call"
    /\ fout' = get_top_posts(subreddits[fi], timeframe, fin)
    /\ pc' = "returned"
    /\ UNCHANGED <<fi, pi, POSTS, disk, email_user, emails, uuids, crash,
                   fetched, trace, fin>>

NextFetch == CallGetTopPosts

SpecFetch == InitFetch /\ [][NextFetch]_vars

-----------------------------------------------------------------------------
(* Shorthands for the properties *)

\* the collect loop has run over every subreddit
CollectDone == fi > Len(subreddits)

\* the persist loop has run over every post of POSTS
PersistDone == pc \in {"email", "done"} \/ crash = "send_email"

\* the run has ended, normally or by an uncaught exception
RunEnded == pc \in {"done", "crashed"}

\* feed f failed: get_top_posts raised or returned False
FeedFailed(f) == fetched[f].raised \/ fetched[f].is_false

\* the feeds fetched so far whose result holds key
FeedsWith(key) ==
    { f \in 1..Len(fetched) : ~FeedFailed(f) /\ key \in DictKeys(fetched[f].posts) }

FirstFeedWith(key) ==
    CHOOSE f \in FeedsWith(key) : \A g \in FeedsWith(key) : f <= g

LastFeedWith(key) ==
    CHOOSE f \in FeedsWith(key) : \A g \in FeedsWith(key) : g <= f

\* entry e carries the url, title and feed name that feed f returned for key
CarriesFrom(e, key, f) ==
    LET v == DictGet(fetched[f].posts, key)
    IN  e.url = v.url /\ e.title = v.title /\ e.subreddit = v.subreddit

\* the number of leading children of listing l that are images
ImagePrefix(l) ==
    CHOOSE k \in 0..Len(l) :
        /\ \A j \in 1..k : is_url_image(l[j].url)
        /\ k < Len(l) => ~is_url_image(l[k+1].url)

-----------------------------------------------------------------------------
(* Properties *)

\* C1: a post whose download fails is skipped: nothing is written for it, its
\* hash stays unset and the loop goes on to the next post.
C1_DownloadFailureSkipsPost ==
    \A i \in 1..Len(trace) :
        trace[i].dl_failed =>
            /\ pi > i
            /\ trace[i].saves = 0
            /\ POSTS[i].val.hash = ""

\* C2: a feed whose fetch fails does not stop the run: the loop goes on to the
\* next feed, and once the collect loop is over the posts of the other feeds
\* are in POSTS, and all of them handled once the persist loop is over.
C2_FeedFailureSkipsFeed ==
    \A f \in 1..Len(fetched) :
        FeedFailed(f) =>
            /\ fi > f
            /\ CollectDone =>
                 \A g \in 1..Len(fetched) :
                     ~FeedFailed(g) => DictKeys(fetched[g].posts) \subseteq DictKeys(POSTS)
            /\ PersistDone => Len(trace) = Len(POSTS)

\* two handled posts with different url, title and path, no file at either
\* path, and downloads that returned the same bytes, which no post handled
\* before them returned
SameContentPair(i, j) ==
    /\ i < j /\ j < pi
    /\ POSTS[i].val.url # POSTS[j].val.url
    /\ POSTS[i].val.title # POSTS[j].val.title
    /\ trace[i].filename # trace[j].filename
    /\ ~trace[i].existed /\ ~trace[j].existed
    /\ ~trace[i].dl_failed /\ ~trace[j].dl_failed
    /\ trace[i].image = trace[j].image
    /\ \A h \in 1..(i-1) : trace[h].downloads = 1 => trace[h].image # trace[i].image

\* the second post of such a pair is skipped as a duplicate hash: one log
\* entry, no write, no file, no hash
SecondIsSkipped(j) ==
    /\ trace[j].dup_hash_logs = 1
    /\ trace[j].saves = 0
    /\ POSTS[j].val.hash = ""
    /\ trace[j].filename \notin DOMAIN disk

C4_ExistingFileNoDownload ==
    \A i \in 1..Len(trace) :
        trace[i].existed =>
            /\ trace[i].downloads = 0
            /\ trace[i].hashed = 0
            /\ trace[i].saves = 0
            /\ ~trace[i].wrote

C4_Witness ==
    \E i \in 1..Len(trace) :
        trace[i].existed /\ trace[i].filename = OldFile /\ pi > i

\* C5: for a fetched listing, get_top_posts returns the posts of the longest
\* prefix of the listing whose entries are all images, in order, each with an
\* empty hash; the result is a dict (not a failure) also when it is empty.
C5_LongestImagePrefix ==
    (pc = "returned" /\ fin.kind = "ok" /\ fin.has_data) =>
        LET l == fin.children
            k == ImagePrefix(l)
        IN  /\ ~fout.raised /\ ~fout.is_false
            /\ Len(fout.posts) = k
            /\ \A j \in 1..k :
                 fout.posts[j] =
                     [key |-> l[j].id,
                      val |-> [url |-> l[j].url, title |-> l[j].title,
                               subreddit |-> subreddits[fi], hash |-> ""]]

C5_Witness ==
    /\ pc = "returned" /\ fin.kind = "ok" /\ fin.has_data
    /\ Len(fin.children) = 3
    /\ is_url_image(fin.children[1].url)
    /\ ~is_url_image(fin.children[2].url)
    /\ is_url_image(fin.children[3].url)
    /\ Len(fout.posts) = 1

\* C6 as stated: after the collect loop, the entry of an id carries the url,
\* title and feed name of the first feed that returned it.
C6_FirstFeedKept ==
    CollectDone =>
        \A i \in 1..Len(POSTS) :
            CarriesFrom(POSTS[i].val, POSTS[i].key, FirstFeedWith(POSTS[i].key))

\* C6 amended: after the collect loop, the entry of an id carries the url,
\* title and feed name of the last feed that returned it.
C6_LastFeedKept ==
    CollectDone =>
        \A i \in 1..Len(POSTS) :
            /\ FeedsWith(POSTS[i].key) # {}
            /\ CarriesFrom(POSTS[i].val, POSTS[i].key, LastFeedWith(POSTS[i].key))

C6_Witness ==
    /\ CollectDone
    /\ \E i \in 1..Len(POSTS) :
         /\ Cardinality(FeedsWith(POSTS[i].key)) = 2
         /\ DictGet(fetched[1].posts, POSTS[i].key).url
              # DictGet(fetched[2].posts, POSTS[i].key).url
         /\ DictGet(fetched[1].posts, POSTS[i].key).title
              # DictGet(fetched[2].posts, POSTS[i].key).title

\* C7: when email is enabled send_email is called once in a run that
\* reaches the persist loop, and only after the persist loop has handled every
\* post, whatever became of the posts; when disabled, never.
C7_EmailOncePerRun ==
    /\ (RunEnded /\ CollectDone) => emails = (IF email_user THEN 1 ELSE 0)
    /\ emails <= (IF email_user THEN 1 ELSE 0)
    /\ emails > 0 => CollectDone /\ Len(trace) = Len(POSTS) /\ pi > Len(POSTS)

\* the hash of every entry is empty until the post was downloaded and hashed,
\* and it was assigned at most once
C8_HashState ==
    /\ Len(trace) <= Len(POSTS)
    /\ \A i \in 1..Len(trace) :
         trace[i].key = POSTS[i].key /\ trace[i].hash_sets <= 1
    /\ \A i \in 1..Len(POSTS) :
         POSTS[i].val.hash # "" =>
            /\ i <= Len(trace)
            /\ trace[i].downloads = 1 /\ ~trace[i].dl_failed
            /\ trace[i].hashed = 1 /\ trace[i].hash_sets = 1
            /\ POSTS[i].val.hash = sha1(trace[i].image)

\* a hash that is set stays as it is
C8_HashStep ==
    \A i \in 1..Len(POSTS) :
        POSTS[i].val.hash # "" =>
            /\ i <= Len(POSTS')
            /\ POSTS'[i].key = POSTS[i].key
            /\ POSTS'[i].val.hash = POSTS[i].val.hash

\* C8: the hash of a post is unset from its collection until its content was
\* downloaded and hashed, is assigned at most once, and never changes or is
\* reset once assigned.
C8_HashSetOnce == []C8_HashState /\ [][C8_HashStep]_vars

C8_Witness ==
    /\ pc = "done"
    /\ Len(POSTS) = 2
    /\ POSTS[1].val.hash # ""
    /\ FeedsWith(POSTS[1].key) = {1, 2}

\* C9: a handled post whose hash is set has a file at its path holding the
\* bytes downloaded for it.
C9_HashImpliesFile ==
    \A i \in 1..Len(trace) :
        (i < pi /\ POSTS[i].val.hash # "") =>
            /\ trace[i].filename \in DOMAIN disk
            /\ disk[trace[i].filename] = trace[i].image

\* no step changes or removes a file that is there
C10_FilesKept ==
    \A p \in DOMAIN disk : p \in DOMAIN disk' /\ disk'[p] = disk[p]

\* save_image is called only for a path without a file, and at most one post
\* writes to a path
C10_WritesFresh ==
    /\ \A i \in 1..Len(trace) : trace[i].saves = 1 => ~trace[i].existed
    /\ \A i, j \in 1..Len(trace) :
         (i # j /\ trace[i].wrote /\ trace[j].wrote) =>
             trace[i].filename # trace[j].filename

\* C10: the persist loop never overwrites a file: every write goes to a path
\* that held no file when the post was reached, every file keeps its content
\* to the end of the run, and a path is written at most once.
C10_NoOverwrite == []C10_WritesFresh /\ [][C10_FilesKept]_vars

C10_Witness ==
    /\ pc = "done"
    /\ OldFile \in DOMAIN disk /\ disk[OldFile] = OldImage
    /\ \E i, j \in 1..Len(trace) :
         /\ i < j
         /\ trace[i].filename = trace[j].filename
         /\ trace[i].wrote
         /\ trace[j].existed

====
